---- MODULE Spec2Model ----
(***************************************************************************)
(* Model of the knowledge-based Minesweeper player of minesweeper.py:      *)
(* class Sentence (a set of cells and the number of mines among them) and  *)
(* class MinesweeperAI (moves_made, mines, safes and the list knowledge).  *)
(***************************************************************************)
EXTENDS Integers, Sequences, FiniteSets, TLC

\* ---- bounds of the model ------------------------------------------------
\* Height x Width board; counts 0 .. MaxCount reported to add_knowledge;
\* MaxCalls state-changing calls on the agent; MaxReveals reveals and at most
\* MaxMines mines in a game; knowledge of at most MaxKnowledge sentences;
\* MaxLoopCalls add_knowledge calls where the loop of step 5 is followed to its end.
Height == 2
Width == 3
MaxCount == 3
MaxCalls == 2
MaxReveals == 3
MaxMines == 1
MaxKnowledge == 6
MaxLoopCalls == 3

VARIABLES
    moves_made,   \* MinesweeperAI.moves_made
    mines,        \* MinesweeperAI.mines
    safes,        \* MinesweeperAI.safes
    knowledge,    \* MinesweeperAI.knowledge, a list of sentences
    pc,           \* position of the running add_knowledge call, or "idle"
    idx,          \* position of the step-5 loop in knowledge
    newIdx,       \* index in knowledge of new_sentence of the last call
    arg,          \* arguments <<cell, count>> of the last add_knowledge call
    pre,          \* mines, safes, moves_made and knowledge when the last operation started
    lastOp,       \* the last operation called
    ret,          \* what the last move query returned
    raised,       \* whether the last operation raised an exception
    calls,        \* number of state-changing calls so far
    board,        \* Minesweeper.mines, the mine layout of the game
    sent          \* one Sentence object on its own

vars == <<moves_made, mines, safes, knowledge, pc, idx, newIdx, arg, pre,
          lastOp, ret, raised, calls, board, sent>>

\* ---- cells and the board --------------------------------------------------
Cells == (0 .. Height - 1) \X (0 .. Width - 1)

None == <<>>

InBounds(u) == 0 <= u[1] /\ u[1] < Height /\ 0 <= u[2] /\ u[2] < Width

\* range(i - 1, i + 2) x range(j - 1, j + 2) without the cell itself
Around(cell) ==
    { u \in ((cell[1] - 1) .. (cell[1] + 1)) \X ((cell[2] - 1) .. (cell[2] + 1)) :
        u # cell }

nearby_mines(layout, cell) ==
    Cardinality({ u \in Around(cell) : InBounds(u) /\ u \in layout })

\* ---- class Sentence -------------------------------------------------------
Sentence(cells, count) == [cells |-> cells, count |-> count]

\* known_mines with `len(self.cells) <= self.count`
known_mines_AtLeast(s) ==
    IF Cardinality(s.cells) <= s.count /\ s.count # 0 THEN s.cells ELSE {}

known_mines(s) ==
    IF Cardinality(s.cells) = s.count /\ s.count # 0 THEN s.cells ELSE {}

\* known_safes with `self.count <= 0`
known_safes_AtMost(s) ==
    IF s.count <= 0 THEN s.cells ELSE {}

known_safes(s) ==
    IF s.count = 0 THEN s.cells ELSE {}

\* Sentence.mark_mine without `self.count -= 1`
Sentence_mark_mine_KeepsCount(s, cell) ==
    IF cell \in s.cells
    THEN [cells |-> s.cells \ {cell}, count |-> s.count]
    ELSE s

\* Sentence.mark_mine without the test `cell in self.cells`
Sentence_mark_mine_NoTest(s, cell) ==
    [cells |-> s.cells \ {cell}, count |-> s.count - 1]

Sentence_mark_mine(s, cell) ==
    IF cell \in s.cells
    THEN [cells |-> s.cells \ {cell}, count |-> s.count - 1]
    ELSE s

\* Sentence.mark_safe that lowers the count as mark_mine does
Sentence_mark_safe_Decrements(s, cell) ==
    IF cell \in s.cells
    THEN [cells |-> s.cells \ {cell}, count |-> s.count - 1]
    ELSE s

Sentence_mark_safe(s, cell) ==
    IF cell \in s.cells
    THEN [cells |-> s.cells \ {cell}, count |-> s.count]
    ELSE s

\* ---- class MinesweeperAI: the pure part -----------------------------------
\* The agent's knowledge state as a value: [mines, safes, knowledge].
AI(m, s, k) == [mines |-> m, safes |-> s, knowledge |-> k]

mark_mine(st, cell) ==
    [mines |-> st.mines \cup {cell},
     safes |-> st.safes,
     knowledge |-> [k \in DOMAIN st.knowledge |->
                        Sentence_mark_mine(st.knowledge[k], cell)]]

\* mark_safe that also withdraws the cell from mines
mark_safe_DropsMine(st, cell) ==
    [mines |-> st.mines \ {cell},
     safes |-> st.safes \cup {cell},
     knowledge |-> [k \in DOMAIN st.knowledge |->
                        Sentence_mark_safe(st.knowledge[k], cell)]]

mark_safe(st, cell) ==
    [mines |-> st.mines,
     safes |-> st.safes \cup {cell},
     knowledge |-> [k \in DOMAIN st.knowledge |->
                        Sentence_mark_safe(st.knowledge[k], cell)]]

\* for cell in sentence.known_mines().copy(): self.mark_mine(cell)
RECURSIVE MarkAllMines(_, _)
MarkAllMines(st, cs) ==
    IF cs = {} THEN st
    ELSE LET c == CHOOSE x \in cs : TRUE
         IN MarkAllMines(mark_mine(st, c), cs \ {c})

\* for cell in sentence.known_safes().copy(): self.mark_safe(cell)
RECURSIVE MarkAllSafes(_, _)
MarkAllSafes(st, cs) ==
    IF cs = {} THEN st
    ELSE LET c == CHOOSE x \in cs : TRUE
         IN MarkAllSafes(mark_safe(st, c), cs \ {c})

\* step 3 without the test `0 <= r < self.height and 0 <= c < self.width`
NewSet_NoBounds(st, cell) ==
    { u \in Around(cell) : u \notin st.safes /\ u \notin st.mines }

\* step 3 without the test `u_cell in self.safes`
NewSet_KeepsSafes(st, cell) ==
    { u \in Around(cell) : u \notin st.mines /\ InBounds(u) }

\* Step 3: the sentence built from the neighbours of cell.
NewSet(st, cell) ==
    { u \in Around(cell) :
        u \notin st.safes /\ u \notin st.mines /\ InBounds(u) }

\* step 3 without `count -= 1` for a neighbour in mines
NewCount_NoDecrement(st, cell, count) == count

NewCount(st, cell, count) ==
    count - Cardinality({ u \in Around(cell) : u \notin st.safes /\ u \in st.mines })

Step3(st, cell, count) ==
    [st EXCEPT !.knowledge =
        Append(@, Sentence(NewSet(st, cell), NewCount(st, cell, count)))]

\* Step 4: one pass over knowledge, from sentence k on.
RECURSIVE Step4(_, _)
Step4(st, k) ==
    IF k > Len(st.knowledge) THEN st
    ELSE LET s1 == MarkAllMines(st, known_mines(st.knowledge[k]))
             s2 == MarkAllSafes(s1, known_safes(s1.knowledge[k]))
         IN Step4(s2, k + 1)

\* add_knowledge without step 2
Steps2to4_NoMarkSafe(st, cell, count) ==
    Step4(Step3(st, cell, count), 1)

\* add_knowledge with the pass of step 4 run before the new sentence is appended
Steps2to4_InferBeforeAdd(st, cell, count) ==
    Step3(Step4(mark_safe(st, cell), 1), cell, count)

\* add_knowledge with the pass of step 4 looking at the new sentence only
Steps2to4_OnlyNew(st, cell, count) ==
    Step4(Step3(mark_safe(st, cell), cell, count), Len(st.knowledge) + 1)

\* Steps 2 to 4 of add_knowledge.
Steps2to4(st, cell, count) ==
    Step4(Step3(mark_safe(st, cell), cell, count), 1)

\* current_sentence not in self.knowledge
InKnowledge(k, s) == \E n \in DOMAIN k : k[n] = s

\* Step 5: the condition and the sentence derived from one sentence of knowledge.
Subsumes(new, sentence) ==
    /\ new.cells \subseteq sentence.cells
    /\ sentence.count > 0
    /\ new # sentence

\* step 5 with the cells of the larger sentence kept
Derived_KeepsCells(new, sentence) ==
    Sentence(sentence.cells, sentence.count - new.count)

\* step 5 with the count of the larger sentence kept
Derived_KeepsCount(new, sentence) ==
    Sentence(sentence.cells \ new.cells, sentence.count)

Derived(new, sentence) ==
    Sentence(sentence.cells \ new.cells, sentence.count - new.count)

\* ---- operations -----------------------------------------------------------
Snapshot == [mines |-> mines, safes |-> safes, moves_made |-> moves_made,
             knowledge |-> knowledge]

\* add_knowledge(cell, count), steps 1 to 4; step 5 follows sentence by sentence.
add_knowledge(cell, count) ==
    /\ pc = "idle"
    /\ LET st == Steps2to4(AI(mines, safes, knowledge), cell, count)
       IN /\ moves_made' = moves_made \cup {cell}
          /\ mines' = st.mines
          /\ safes' = st.safes
          /\ knowledge' = st.knowledge
          /\ newIdx' = Len(knowledge) + 1
    /\ pc' = "step5"
    /\ idx' = 1
    /\ arg' = <<cell, count>>
    /\ pre' = Snapshot
    /\ lastOp' = "add_knowledge"
    /\ ret' = None
    /\ raised' = FALSE
    /\ calls' = calls + 1
    /\ UNCHANGED <<board, sent>>

\* One iteration of `for sentence in self.knowledge` of step 5. The list grows
\* while it is iterated, so appended sentences are visited too; the model stops
\* a loop that would make knowledge longer than MaxKnowledge.
Step5Body ==
    /\ pc = "step5"
    /\ idx <= Len(knowledge)
    /\ LET new == knowledge[newIdx]
           sentence == knowledge[idx]
       IN IF Subsumes(new, sentence) /\ ~InKnowledge(knowledge, Derived(new, sentence))
          THEN /\ Len(knowledge) < MaxKnowledge
               /\ knowledge' = Append(knowledge, Derived(new, sentence))
          ELSE knowledge' = knowledge
    /\ idx' = idx + 1
    /\ UNCHANGED <<moves_made, mines, safes, pc, newIdx, arg, pre, lastOp, ret,
                   raised, calls, board, sent>>

\* The loop of step 5 is exhausted: add_knowledge returns.
Step5Return ==
    /\ pc = "step5"
    /\ idx > Len(knowledge)
    /\ pc' = "idle"
    /\ UNCHANGED <<moves_made, mines, safes, knowledge, idx, newIdx, arg, pre,
                   lastOp, ret, raised, calls, board, sent>>

\* make_safe_move choosing among all of safes
make_safe_move_AnySafe ==
    /\ pc = "idle"
    /\ IF safes # {}
       THEN ret' \in safes
       ELSE ret' = None
    /\ lastOp' = "make_safe_move"
    /\ pre' = Snapshot
    /\ raised' = FALSE
    /\ UNCHANGED <<moves_made, mines, safes, knowledge, pc, idx, newIdx, arg,
                   calls, board, sent>>

make_safe_move ==
    /\ pc = "idle"
    /\ LET moves == safes \ moves_made
       IN IF moves # {}
          THEN ret' \in moves
          ELSE ret' = None
    /\ lastOp' = "make_safe_move"
    /\ pre' = Snapshot
    /\ raised' = FALSE
    /\ UNCHANGED <<moves_made, mines, safes, knowledge, pc, idx, newIdx, arg,
                   calls, board, sent>>

\* make_random_move without the test `(r, c) not in self.mines`
make_random_move_IgnoresMines ==
    /\ pc = "idle"
    /\ LET moves == { u \in Cells : u \notin moves_made }
       IN IF moves # {}
          THEN ret' \in moves
          ELSE ret' = None
    /\ lastOp' = "make_random_move"
    /\ pre' = Snapshot
    /\ raised' = FALSE
    /\ UNCHANGED <<moves_made, mines, safes, knowledge, pc, idx, newIdx, arg,
                   calls, board, sent>>

make_random_move ==
    /\ pc = "idle"
    /\ LET moves == { u \in Cells : u \notin moves_made /\ u \notin mines }
       IN IF moves # {}
          THEN ret' \in moves
          ELSE ret' = None
    /\ lastOp' = "make_random_move"
    /\ pre' = Snapshot
    /\ raised' = FALSE
    /\ UNCHANGED <<moves_made, mines, safes, knowledge, pc, idx, newIdx, arg,
                   calls, board, sent>>

\* ---- the agent driven by arbitrary observations ---------------------------
InitAI ==
    /\ moves_made = {}
    /\ mines = {}
    /\ safes = {}
    /\ knowledge = <<>>
    /\ pc = "idle"
    /\ idx = 1
    /\ newIdx = 0
    /\ arg = None
    /\ pre = [mines |-> {}, safes |-> {}, moves_made |-> {}, knowledge |-> <<>>]
    /\ lastOp = "init"
    /\ ret = None
    /\ raised = FALSE
    /\ calls = 0

Init ==
    /\ InitAI
    /\ board = {}
    /\ sent = Sentence({}, 0)

\* The board reports cells that are not known mines; the count is arbitrary.
Observe ==
    /\ calls < MaxCalls
    /\ \E cell \in Cells \ mines : \E count \in 0 .. MaxCount :
        add_knowledge(cell, count)

Next ==
    \/ Observe
    \/ Step5Body
    \/ Step5Return

Spec == Init /\ [][Next]_vars

\* ---- the agent with its move queries ---------------------------------------
NextMoves ==
    \/ Observe
    \/ Step5Body
    \/ Step5Return
    \/ make_safe_move
    \/ make_random_move

SpecMoves == Init /\ [][NextMoves]_vars

\* ---- the agent with every public operation ----------------------------------
\* MinesweeperAI.mark_mine(cell) called from outside
MarkMine ==
    /\ pc = "idle"
    /\ calls < MaxCalls
    /\ \E cell \in Cells :
        LET st == mark_mine(AI(mines, safes, knowledge), cell)
        IN /\ mines' = st.mines
           /\ safes' = st.safes
           /\ knowledge' = st.knowledge
    /\ lastOp' = "mark_mine"
    /\ pre' = Snapshot
    /\ ret' = None
    /\ raised' = FALSE
    /\ calls' = calls + 1
    /\ UNCHANGED <<moves_made, pc, idx, newIdx, arg, board, sent>>

\* MinesweeperAI.mark_safe(cell) called from outside
MarkSafe ==
    /\ pc = "idle"
    /\ calls < MaxCalls
    /\ \E cell \in Cells :
        LET st == mark_safe(AI(mines, safes, knowledge), cell)
        IN /\ mines' = st.mines
           /\ safes' = st.safes
           /\ knowledge' = st.knowledge
    /\ lastOp' = "mark_safe"
    /\ pre' = Snapshot
    /\ ret' = None
    /\ raised' = FALSE
    /\ calls' = calls + 1
    /\ UNCHANGED <<moves_made, pc, idx, newIdx, arg, board, sent>>

\* Any cell and any count: the agent itself checks neither.
ObserveAny ==
    /\ calls < MaxCalls
    /\ \E cell \in Cells : \E count \in 0 .. MaxCount :
        add_knowledge(cell, count)

NextAll ==
    \/ ObserveAny
    \/ Step5Body
    \/ Step5Return
    \/ MarkMine
    \/ MarkSafe
    \/ make_safe_move
    \/ make_random_move

SpecAll == Init /\ [][NextAll]_vars

\* ---- add_knowledge called for any cell of the board ---------------------------
NextAny ==
    \/ ObserveAny
    \/ Step5Body
    \/ Step5Return

SpecAny == Init /\ [][NextAny]_vars

\* ---- the agent driven by a game with a fixed mine layout -------------------
Layouts == { L \in SUBSET Cells : Cardinality(L) <= MaxMines }

InitBoard ==
    /\ InitAI
    /\ board \in Layouts
    /\ sent = Sentence({}, 0)

\* The game reveals a cell that is no mine and is not revealed yet, and reports
\* nearby_mines(cell).
Reveal ==
    /\ calls < MaxReveals
    /\ \E cell \in Cells \ (board \cup moves_made) :
        add_knowledge(cell, nearby_mines(board, cell))

NextBoard ==
    \/ Reveal
    \/ Step5Body
    \/ Step5Return

SpecBoard == InitBoard /\ [][NextBoard]_vars

\* ---- the game, with the player asking for safe moves --------------------------
NextGame ==
    \/ Reveal
    \/ Step5Body
    \/ Step5Return
    \/ make_safe_move

SpecGame == InitBoard /\ [][NextGame]_vars

\* ---- one Sentence on its own -------------------------------------------------
\* Every sentence over the board with 0 <= count <= |cells|.
Sentences ==
    UNION { { Sentence(cs, n) : n \in 0 .. Cardinality(cs) } : cs \in SUBSET Cells }

InitSentence ==
    /\ InitAI
    /\ board = {}
    /\ sent \in Sentences

SentenceMarkMine ==
    /\ \E cell \in Cells : sent' = Sentence_mark_mine(sent, cell)
    /\ lastOp' = "Sentence.mark_mine"
    /\ raised' = FALSE
    /\ UNCHANGED <<moves_made, mines, safes, knowledge, pc, idx, newIdx, arg, pre,
                   ret, calls, board>>

SentenceMarkSafe ==
    /\ \E cell \in Cells : sent' = Sentence_mark_safe(sent, cell)
    /\ lastOp' = "Sentence.mark_safe"
    /\ raised' = FALSE
    /\ UNCHANGED <<moves_made, mines, safes, knowledge, pc, idx, newIdx, arg, pre,
                   ret, calls, board>>

NextSentence ==
    \/ SentenceMarkMine
    \/ SentenceMarkSafe

SpecSentence == InitSentence /\ [][NextSentence]_vars

\* ---- the queries of one Sentence ---------------------------------------------
\* Sentence(cells, count) takes any count: every set of cells of the board with
\* every count from -1 to one more than the number of cells of the board.
AnySentences ==
    { Sentence(cs, n) : cs \in SUBSET Cells, n \in -1 .. Cardinality(Cells) + 1 }

InitKnown ==
    /\ InitAI
    /\ board = {}
    /\ sent \in AnySentences

SentenceKnownMines ==
    /\ ret' = known_mines(sent)
    /\ lastOp' = "Sentence.known_mines"
    /\ raised' = FALSE
    /\ UNCHANGED <<moves_made, mines, safes, knowledge, pc, idx, newIdx, arg, pre,
                   calls, board, sent>>

SentenceKnownSafes ==
    /\ ret' = known_safes(sent)
    /\ lastOp' = "Sentence.known_safes"
    /\ raised' = FALSE
    /\ UNCHANGED <<moves_made, mines, safes, knowledge, pc, idx, newIdx, arg, pre,
                   calls, board, sent>>

NextKnown ==
    \/ SentenceKnownMines
    \/ SentenceKnownSafes

SpecKnown == InitKnown /\ [][NextKnown]_vars

\* ---- add_knowledge run to completion ------------------------------------------
\* As Observe, with MaxLoopCalls calls.
ObserveLoop ==
    /\ calls < MaxLoopCalls
    /\ \E cell \in Cells \ mines : \E count \in 0 .. MaxCount :
        add_knowledge(cell, count)

NextLoop ==
    \/ ObserveLoop
    \/ Step5Body
    \/ Step5Return

\* A call that has started keeps executing: the loop of step 5 takes its next
\* iteration, and returns when the list is exhausted.
SpecLoop ==
    /\ Init
    /\ [][NextLoop]_vars
    /\ WF_vars(Step5Body)
    /\ WF_vars(Step5Return)

\* ---- properties -------------------------------------------------------------
CountInRange(s) == 0 <= s.count /\ s.count <= Cardinality(s.cells)

Returned == pc = "idle" /\ lastOp = "add_knowledge"

Neighbours(cell) == { u \in Around(cell) : InBounds(u) }

\* C1: no cell is ever both in mines and in safes, whatever counts add_knowledge is
\* given for cells that are not known mines.
C1_MinesSafesDisjoint == mines \cap safes = {}

C1_Witness == Returned /\ calls = MaxCalls /\ mines # {} /\ safes \ moves_made # {}

\* C2: when add_knowledge returns, no sentence of knowledge has a non-empty
\* known_mines() or known_safes().
C2_Saturated ==
    Returned =>
        \A k \in DOMAIN knowledge :
            known_mines(knowledge[k]) = {} /\ known_safes(knowledge[k]) = {}

\* C3: a sentence that starts with 0 <= count <= |cells| keeps 0 <= count <= |cells|
\* under any mark_mine / mark_safe calls.
C3_SentenceCountInRange == CountInRange(sent)

\* C4: an add_knowledge call that leaves a sentence with count outside [0, |cells|]
\* in knowledge (by a mark_mine / mark_safe mutation or by a derived sentence) ends
\* in an error raised to the caller.
C4_ViolationRaised ==
    ( /\ Returned
      /\ \A k \in DOMAIN pre.knowledge : CountInRange(pre.knowledge[k])
      /\ \E k \in DOMAIN knowledge : ~CountInRange(knowledge[k]) )
    => raised

\* C5: no operation shrinks mines, safes or moves_made or shortens knowledge.
C5_Monotone ==
    [][ /\ mines \subseteq mines'
        /\ safes \subseteq safes'
        /\ moves_made \subseteq moves_made'
        /\ Len(knowledge) <= Len(knowledge') ]_vars

C5_Witness ==
    /\ lastOp = "mark_mine"
    /\ mines # {} /\ safes # {} /\ moves_made # {} /\ Len(knowledge) > 0

\* C6: every move made is a known safe cell.
C6_MovesAreSafe == moves_made \subseteq safes

C6_Witness == lastOp = "make_random_move" /\ calls = MaxCalls /\ Cardinality(moves_made) > 1

\* C7: make_safe_move returns a cell of safes - moves_made, returns None exactly
\* when that set is empty, and changes none of mines, safes, moves_made, knowledge.
C7_SafeMove ==
    lastOp = "make_safe_move" =>
        /\ (ret = None) <=> (pre.safes \ pre.moves_made = {})
        /\ ret # None => (ret \in pre.safes /\ ret \notin pre.moves_made)
        /\ Snapshot = pre

C7_Witness ==
    /\ lastOp = "make_safe_move"
    /\ ret # None
    /\ moves_made # {}
    /\ mines # {}

\* C8: make_random_move returns a cell of the board that is neither in moves_made
\* nor in mines, and None exactly when there is no such cell.
C8_RandomMove ==
    lastOp = "make_random_move" =>
        /\ (ret = None) <=> (\A u \in Cells : u \in pre.moves_made \/ u \in pre.mines)
        /\ ret # None =>
            (InBounds(ret) /\ ret \notin pre.moves_made /\ ret \notin pre.mines)

\* a cell of unknown status is returned while mines are known
C8_Witness ==
    /\ lastOp = "make_random_move"
    /\ ret # None
    /\ ret \notin safes
    /\ mines # {}

\* an unplayed known-safe cell is returned
C8_WitnessSafe == lastOp = "make_random_move" /\ ret # None /\ ret \in safes

\* nothing is left to return
C8_WitnessNone == lastOp = "make_random_move" /\ ret = None

\* C9: add_knowledge(cell, 0), called when no neighbour of cell is a known mine,
\* returns with every neighbour of cell on the board in safes.
C9_ZeroReveal ==
    ( /\ Returned
      /\ arg[2] = 0
      /\ Neighbours(arg[1]) \cap pre.mines = {} )
    => Neighbours(arg[1]) \subseteq safes

C9_Witness ==
    /\ Returned
    /\ arg[2] = 0
    /\ board # {}
    /\ \E k \in DOMAIN pre.knowledge : pre.knowledge[k].count > 0
    /\ Neighbours(arg[1]) \ pre.safes # {}

\* C10: when add_knowledge returns, knowledge holds (S.cells - N.cells,
\* S.count - N.count) for the new sentence N and every sentence S that was in
\* knowledge after step 4 with N.cells a subset of S.cells, S.count > 0 and N # S.
C10_Subsumption ==
    Returned =>
        LET N == knowledge[newIdx]
        IN \A k \in 1 .. newIdx :
            LET S == knowledge[k]
            IN (N.cells \subseteq S.cells /\ S.count > 0 /\ N # S) =>
                \E n \in DOMAIN knowledge :
                    /\ knowledge[n].cells = S.cells \ N.cells
                    /\ knowledge[n].count = S.count - N.count

C10_Witness ==
    /\ Returned
    /\ Len(knowledge) > newIdx
    /\ \E k \in 1 .. newIdx - 1 :
        /\ knowledge[newIdx].cells # {}
        /\ knowledge[newIdx].cells \subseteq knowledge[k].cells
        /\ knowledge[newIdx].cells # knowledge[k].cells
        /\ knowledge[k].count > 0
        /\ knowledge[k].count >= knowledge[newIdx].count

\* A sentence whose cells are all settled by its count alone.
AllSafe(s) == s.count = 0 /\ s.cells # {}

AllMines(s) == s.count = Cardinality(s.cells) /\ s.count > 0

\* C11: in a game with a fixed mine layout, a sentence that was in knowledge with
\* count = 0 and cells left, or with count = |cells| > 0, when one add_knowledge
\* call returned has no cells left when the next add_knowledge call returns, and
\* its cells are then in safes, respectively in mines.
C11_CatchUp ==
    Returned =>
        \A k \in DOMAIN pre.knowledge :
            LET S == pre.knowledge[k]
            IN /\ AllSafe(S) => (S.cells \subseteq safes /\ knowledge[k].cells = {})
               /\ AllMines(S) => (S.cells \subseteq mines /\ knowledge[k].cells = {})

\* a sentence left with count = 0 and cells by one call is settled by the next
C11_Witness ==
    /\ Returned
    /\ \E k \in DOMAIN pre.knowledge :
        AllSafe(pre.knowledge[k]) /\ knowledge[k].cells = {}

\* a sentence left with count = |cells| > 0 by one call is settled by the next
C11_WitnessMines ==
    /\ Returned
    /\ \E k \in DOMAIN pre.knowledge :
        AllMines(pre.knowledge[k]) /\ knowledge[k].cells = {}

\* C12: on the agent, mark_mine(x) called twice in a row leaves mines, safes and
\* every sentence of knowledge as one call leaves them; likewise mark_safe(x).
C12_MarkIdempotent ==
    pc = "idle" =>
        \A x \in Cells :
            LET st == AI(mines, safes, knowledge)
            IN /\ mark_mine(mark_mine(st, x), x) = mark_mine(st, x)
               /\ mark_safe(mark_safe(st, x), x) = mark_safe(st, x)

\* mark_mine has changed a sentence, and sentences with cells are left to mark
C12_Witness ==
    /\ lastOp = "mark_mine"
    /\ \E k \in DOMAIN pre.knowledge : pre.knowledge[k] # knowledge[k]
    /\ \E k \in DOMAIN knowledge : knowledge[k].cells # {}

\* mark_safe has changed a sentence, and sentences with cells are left to mark
C12_WitnessSafe ==
    /\ lastOp = "mark_safe"
    /\ \E k \in DOMAIN pre.knowledge : pre.knowledge[k] # knowledge[k]
    /\ \E k \in DOMAIN knowledge : knowledge[k].cells # {}

\* C13: Sentence.known_mines() returns cells when count = |cells| and count # 0,
\* the empty set in every other case, and leaves cells and count as they were.
C13_KnownMines ==
    [][ lastOp' = "Sentence.known_mines" =>
            /\ ret' = IF sent.count = Cardinality(sent.cells) /\ sent.count # 0
                      THEN sent.cells
                      ELSE {}
            /\ sent' = sent ]_vars

\* known_mines has returned the cells of a sentence
C13_Witness ==
    /\ lastOp = "Sentence.known_mines"
    /\ ret = sent.cells
    /\ Cardinality(sent.cells) > 1

\* known_mines has returned the empty set for a sentence with cells
C13_WitnessEmpty ==
    /\ lastOp = "Sentence.known_mines"
    /\ ret = {}
    /\ sent.cells # {}
    /\ sent.count > 0

\* C14: Sentence.known_safes() returns cells when count = 0, the empty set in
\* every other case, and leaves cells and count as they were.
C14_KnownSafes ==
    [][ lastOp' = "Sentence.known_safes" =>
            /\ ret' = IF sent.count = 0 THEN sent.cells ELSE {}
            /\ sent' = sent ]_vars

\* known_safes has returned the cells of a sentence
C14_Witness ==
    /\ lastOp = "Sentence.known_safes"
    /\ ret = sent.cells
    /\ Cardinality(sent.cells) > 1

\* known_safes has returned the empty set for a sentence with cells
C14_WitnessEmpty ==
    /\ lastOp = "Sentence.known_safes"
    /\ ret = {}
    /\ sent.cells # {}
    /\ sent.count < 0

\* new_sentence of the last add_knowledge call as step 3 built it, before step 4
Built ==
    LET st == AI(pre.mines, pre.safes, pre.knowledge)
    IN Step3(mark_safe(st, arg[1]), arg[1], arg[2]).knowledge[Len(pre.knowledge) + 1]

\* C15: the sentence add_knowledge(cell, count) appends is built, before step 4,
\* with cells = the neighbours of cell on the board that are in neither safes nor
\* mines, and count = count minus the number of neighbours in mines; neighbours in
\* safes change neither, and no coordinate off the board is added.
C15_NewSentence ==
    lastOp = "add_knowledge" =>
        /\ Built.cells =
              { u \in Neighbours(arg[1]) : u \notin pre.safes /\ u \notin pre.mines }
        /\ Built.count = arg[2] - Cardinality(Neighbours(arg[1]) \cap pre.mines)
        /\ \A u \in Built.cells : InBounds(u)

\* the call found neighbours in mines, of unknown status and off the board
C15_Witness ==
    /\ Returned
    /\ Neighbours(arg[1]) \cap pre.mines # {}
    /\ Built.cells # {}
    /\ Built.count < arg[2]
    /\ Around(arg[1]) # Neighbours(arg[1])

\* the call found neighbours in safes and of unknown status
C15_WitnessSafes ==
    /\ Returned
    /\ Neighbours(arg[1]) \cap pre.safes # {}
    /\ Built.cells # {}

\* C16: in a game with a fixed mine layout, whenever add_knowledge returns every
\* sentence of knowledge, derived ones included, has 0 <= count <= |cells|.
C16_CountInRange ==
    Returned => \A k \in DOMAIN knowledge : CountInRange(knowledge[k])

\* the call derived a sentence, and a sentence with mines among its cells is held
C16_Witness ==
    /\ Returned
    /\ Len(knowledge) > newIdx
    /\ \E k \in DOMAIN knowledge :
        knowledge[k].count > 0 /\ Cardinality(knowledge[k].cells) > knowledge[k].count

\* The loop of step 5 is about to derive a sentence from new_sentence with no
\* cells and a negative count: the derived sentence has the cells of the visited
\* one and a larger count, is visited in turn and yields the next one, without end.
Runaway ==
    /\ pc = "step5"
    /\ idx <= Len(knowledge)
    /\ knowledge[newIdx].cells = {}
    /\ knowledge[newIdx].count < 0
    /\ knowledge[idx].count > 0

\* The model stops a loop at MaxKnowledge sentences only when it is such a loop.
StoppedOnlyWhenRunaway ==
    ( /\ pc = "step5"
      /\ idx <= Len(knowledge)
      /\ Len(knowledge) >= MaxKnowledge
      /\ Subsumes(knowledge[newIdx], knowledge[idx])
      /\ ~InKnowledge(knowledge, Derived(knowledge[newIdx], knowledge[idx])) )
    => Runaway

\* C17: every add_knowledge call terminates: the loop of step 5 appends finitely
\* many sentences and then finishes, for any knowledge and any input.
C17_Terminates == (pc = "step5") ~> (pc = "idle")

\* C18: in a game with a fixed mine layout, every cell of mines is a mine of the
\* layout and no cell of safes is one; so make_safe_move never returns a mine.
C18_Sound ==
    /\ mines \subseteq board
    /\ safes \cap board = {}
    /\ (lastOp = "make_safe_move" /\ ret # None) => ret \notin board

\* a safe move is returned while a mine of the layout is known
C18_Witness ==
    /\ lastOp = "make_safe_move"
    /\ ret # None
    /\ mines # {}

\* C19: whenever add_knowledge returns, after any add_knowledge calls on cells of
\* the board, no sentence of knowledge holds a cell that is in mines or in safes,
\* and every cell of every sentence is on the board.
C19_OnlyUnknownCells ==
    Returned =>
        \A k \in DOMAIN knowledge :
            /\ knowledge[k].cells \cap (mines \cup safes) = {}
            /\ \A u \in knowledge[k].cells : InBounds(u)

\* the call has taken cells out of an older sentence, mines are known and sentences
\* with cells are held
C19_Witness ==
    /\ Returned
    /\ mines # {}
    /\ \E k \in DOMAIN pre.knowledge : pre.knowledge[k].cells # knowledge[k].cells
    /\ \E k \in DOMAIN knowledge : knowledge[k].cells # {}
    /\ \E k \in DOMAIN knowledge : knowledge[k].cells # {}

\* the call was made for a cell that was in mines
C19_WitnessKnownMine ==
    /\ Returned
    /\ arg[1] \in pre.mines
    /\ \E k \in DOMAIN knowledge : knowledge[k].cells # {}

====
